---- MODULE Spec2Model ----
(***************************************************************************)
(* Railway track monitoring: the anomaly-detection pipeline                *)
(* (backend/detector.py) and the criticality level of an inspection        *)
(* (backend/models.py).                                                    *)
(***************************************************************************)
EXTENDS Integers, Sequences, FiniteSets, TLC

(***************************************************************************)
(* Bounds of the model.                                                    *)
(***************************************************************************)
\* Largest anomaly count handed to the scoring and note functions.
MaxCount == 64
\* Longest freely chosen run of contours at the head of an image.
MaxContours == 2
\* Longest run of identical large contours that follows it.
MaxPad == 62
\* Decimal score literals k/1000 given to an Inspection, k in 0..MaxMilli.
MaxMilli == 1000
\* Decimal score literals k/100 given to _generate_notes, k in 0..MaxCenti.
MaxCenti == 100
\* Longest path given to the detector directly.
MaxPathLen == 5
\* Most uploads the database takes, and half the files the folder holds.
MaxUploads == 2
\* Last second of the clock.
MaxClock == 1
\* Longest limit string given to validate_pagination_params.
MaxLimitLen == 3

(***************************************************************************)
(* Python floats: IEEE-754 binary64, round-to-nearest-even.  A finite      *)
(* non-negative float below 4.0 is held exactly as the integer             *)
(* v = hi * Base^2 + mid * Base + lo standing for v / Base^3, in three       *)
(* limbs of LimbBits bits (lo, mid) and LimbBits + 2 bits (hi); a limb is  *)
(* three chunks of ChunkBits bits.  Every value of the model is 0 or at    *)
(* least 2^-10, so the 53-bit significand and its guard bit always lie     *)
(* inside the three limbs.                                                 *)
(***************************************************************************)
MantBits == 53
ChunkBits == 7
Chunk == 2 ^ ChunkBits
LimbBits == 3 * ChunkBits
Base == 2 ^ LimbBits

FZero == [hi |-> 0, mid |-> 0, lo |-> 0]

\* Carry propagation between the limbs.
Normalise(h, m, l) ==
    LET m1 == m + (l \div Base)
    IN  [hi |-> h + (m1 \div Base), mid |-> m1 % Base, lo |-> l % Base]

\* The exact (unrounded) sum and the exact product with a small integer.
ExactAdd(a, b) == Normalise(a.hi + b.hi, a.mid + b.mid, a.lo + b.lo)
ExactMulInt(n, x) == Normalise(n * x.hi, n * x.mid, n * x.lo)

\* Index of the leading one bit of the high limb.
TopBit(h) == CHOOSE q \in 0..(LimbBits + 1) : 2 ^ q <= h /\ h < 2 ^ (q + 1)

\* Round an exact value to MantBits significant bits, ties to even; sticky
\* says that non-zero bits lie below the low limb.
RoundToDouble(v, sticky) ==
    IF v.hi = 0 THEN v
    ELSE LET drop == (TopBit(v.hi) + 1) + 2 * LimbBits - MantBits
         IN  IF drop <= 0 THEN v
             ELSE LET unit == 2 ^ drop
                      low == v.lo % unit
                      half == unit \div 2
                      odd == (v.lo \div unit) % 2 = 1
                      up == low > half \/ (low = half /\ (sticky \/ odd))
                  IN  IF up THEN Normalise(v.hi, v.mid, v.lo - low + unit)
                      ELSE [hi |-> v.hi, mid |-> v.mid, lo |-> v.lo - low]

\* LimbBits further binary digits of r / den, by long division.
DivLimb(r, den) ==
    LET a == r * Chunk
        b == (a % den) * Chunk
        c == (b % den) * Chunk
    IN  [limb |-> ((a \div den) * Chunk + (b \div den)) * Chunk + (c \div den),
         rem |-> c % den]

\* The float a decimal literal num/den denotes (the nearest binary64).
FromDecimal(num, den) ==
    LET h == DivLimb(num % den, den)
        m == DivLimb(h.rem, den)
        l == DivLimb(m.rem, den)
    IN  RoundToDouble([hi |-> (num \div den) * Base + h.limb,
                       mid |-> m.limb, lo |-> l.limb],
                      l.rem # 0)

\* float + float, int * float, and the comparisons.
FAdd(a, b) == RoundToDouble(ExactAdd(a, b), FALSE)
FMulInt(n, x) == RoundToDouble(ExactMulInt(n, x), FALSE)
FGe(a, b) ==
    \/ a.hi > b.hi
    \/ a.hi = b.hi /\ a.mid > b.mid
    \/ a.hi = b.hi /\ a.mid = b.mid /\ a.lo >= b.lo
FLe(a, b) == FGe(b, a)
FLt(a, b) == ~FGe(a, b)
FGt(a, b) == ~FGe(b, a)
\* Python's min(a, b): b only when b < a.
FMin(a, b) == IF FLt(b, a) THEN b ELSE a

\* Mutant of round2: round(x, 1).
round2_one_decimal(x) ==
    LET scaled == ExactMulInt(10, x)
        whole == scaled.hi \div Base
        rest == [hi |-> scaled.hi % Base, mid |-> scaled.mid, lo |-> scaled.lo]
        half == [hi |-> Base \div 2, mid |-> 0, lo |-> 0]
        up == FGt(rest, half) \/ (rest = half /\ whole % 2 = 1)
    IN  FromDecimal(IF up THEN whole + 1 ELSE whole, 10)

\* round(x, 2): the exact value times 100, rounded to an integer k with
\* ties to even, and then the float nearest to k/100.
round2(x) ==
    LET scaled == ExactMulInt(100, x)
        whole == scaled.hi \div Base
        rest == [hi |-> scaled.hi % Base, mid |-> scaled.mid, lo |-> scaled.lo]
        half == [hi |-> Base \div 2, mid |-> 0, lo |-> 0]
        up == FGt(rest, half) \/ (rest = half /\ whole % 2 = 1)
    IN  FromDecimal(IF up THEN whole + 1 ELSE whole, 100)

(***************************************************************************)
(* RailwayDetector._calculate_criticality                                  *)
(***************************************************************************)
\* The three ramps, each as the source writes it.
Ramp1(n) == FAdd(FromDecimal(5, 100), FMulInt(n, FromDecimal(3, 100)))
\* Mutants of Ramp2: the ramp starting from 0.3, and with slope 0.02.
Ramp2_low(n) == FAdd(FromDecimal(3, 10), FMulInt(n - 10, FromDecimal(15, 1000)))
Ramp2_steep(n) == FAdd(FromDecimal(4, 10), FMulInt(n - 10, FromDecimal(2, 100)))
Ramp2(n) == FAdd(FromDecimal(4, 10), FMulInt(n - 10, FromDecimal(15, 1000)))
\* Mutant of Ramp3: the clamp left out.
Ramp3_unclamped(n) == FAdd(FromDecimal(7, 10), FMulInt(n - 30, FromDecimal(1, 100)))
Ramp3(n) ==
    FMin(FAdd(FromDecimal(7, 10), FMulInt(n - 30, FromDecimal(1, 100))),
         FromDecimal(1, 1))

\* Mutants of _calculate_criticality: the first boundary tested with <, and
\* the zero case left out.
_calculate_criticality_strict(anomalies_count, image_size) ==
    IF anomalies_count = 0 THEN FZero
    ELSE IF anomalies_count < 10 THEN Ramp1(anomalies_count)
    ELSE IF anomalies_count <= 30 THEN Ramp2(anomalies_count)
    ELSE Ramp3(anomalies_count)
_calculate_criticality_nozero(anomalies_count, image_size) ==
    IF anomalies_count <= 10 THEN Ramp1(anomalies_count)
    ELSE IF anomalies_count <= 30 THEN Ramp2(anomalies_count)
    ELSE Ramp3(anomalies_count)

_calculate_criticality(anomalies_count, image_size) ==
    IF anomalies_count = 0 THEN FZero
    ELSE IF anomalies_count <= 10 THEN Ramp1(anomalies_count)
    ELSE IF anomalies_count <= 30 THEN Ramp2(anomalies_count)
    ELSE Ramp3(anomalies_count)

(***************************************************************************)
(* Inspection.get_criticality_level                                        *)
(***************************************************************************)
\* Mutant of get_criticality_level: the thresholds tested with >.
get_criticality_level_strict(criticality_score) ==
    IF FGt(criticality_score, FromDecimal(7, 10)) THEN "high"
    ELSE IF FGt(criticality_score, FromDecimal(4, 10)) THEN "medium"
    ELSE "low"

get_criticality_level(criticality_score) ==
    IF FGe(criticality_score, FromDecimal(7, 10)) THEN "high"
    ELSE IF FGe(criticality_score, FromDecimal(4, 10)) THEN "medium"
    ELSE "low"

(***************************************************************************)
(* RailwayDetector._generate_notes.  An f-string is held as its fixed text *)
(* (with {} for each slot) and the values formatted into the slots.        *)
(***************************************************************************)
FString(template, values) == [template |-> template, values |-> values]

CriticalTemplate == "CRITICAL: {} anomalies détectées. Inspection immédiate recommandée."
WarningTemplate == "WARNING: {} anomalies détectées. Planifier une inspection bientôt."
InfoTemplate == "INFO: {} anomalies mineures détectées. Surveiller lors de la prochaine maintenance."
OkTemplate == "OK: Pas d'anomalies significatives détectées."

\* Mutant of _generate_notes: the INFO note only from two anomalies on.
_generate_notes_many(anomalies_count, criticality_score) ==
    IF FGe(criticality_score, FromDecimal(7, 10))
    THEN FString(CriticalTemplate, <<anomalies_count>>)
    ELSE IF FGe(criticality_score, FromDecimal(4, 10))
    THEN FString(WarningTemplate, <<anomalies_count>>)
    ELSE IF anomalies_count > 1
    THEN FString(InfoTemplate, <<anomalies_count>>)
    ELSE FString(OkTemplate, <<>>)

\* Mutant of _generate_notes: the WARNING note from 0.3 on.
_generate_notes_early(anomalies_count, criticality_score) ==
    IF FGe(criticality_score, FromDecimal(7, 10))
    THEN FString(CriticalTemplate, <<anomalies_count>>)
    ELSE IF FGe(criticality_score, FromDecimal(3, 10))
    THEN FString(WarningTemplate, <<anomalies_count>>)
    ELSE IF anomalies_count > 0
    THEN FString(InfoTemplate, <<anomalies_count>>)
    ELSE FString(OkTemplate, <<>>)

_generate_notes(anomalies_count, criticality_score) ==
    IF FGe(criticality_score, FromDecimal(7, 10))
    THEN FString(CriticalTemplate, <<anomalies_count>>)
    ELSE IF FGe(criticality_score, FromDecimal(4, 10))
    THEN FString(WarningTemplate, <<anomalies_count>>)
    ELSE IF anomalies_count > 0
    THEN FString(InfoTemplate, <<anomalies_count>>)
    ELSE FString(OkTemplate, <<>>)

(***************************************************************************)
(* RailwayDetector: configuration and the contour stages.  A contour is    *)
(* [id, area2, bbox]: id is its place in the order cv2.findContours yields *)
(* it, area2 is twice cv2.contourArea (which is a multiple of 0.5), bbox   *)
(* is cv2.boundingRect.                                                    *)
(***************************************************************************)
RailwayDetector ==
    [canny_threshold1 |-> 50, canny_threshold2 |-> 150,
     min_contour_area |-> 100, blur_kernel_size |-> 5]

\* Lines 47-50: grayscale, blur, Canny and findContours are OpenCV's; their
\* outcome for a decoded image is the list of its outer contours.
_find_contours(image) == image.contours

contourArea2(contour) == contour.area2
boundingRect(contour) == contour.bbox

\* Mutant of _filter_anomalies: the area tested with >.
_filter_anomalies_strict(self, contours) ==
    LET kept == SelectSeq(contours,
                    LAMBDA c : contourArea2(c) > 2 * self.min_contour_area)
    IN  [i \in 1..Len(kept) |->
            [contour |-> kept[i], area2 |-> contourArea2(kept[i]),
             bbox |-> boundingRect(kept[i])]] \o <<>>

_filter_anomalies(self, contours) ==
    LET kept == SelectSeq(contours,
                    LAMBDA c : contourArea2(c) >= 2 * self.min_contour_area)
    IN  [i \in 1..Len(kept) |->
            [contour |-> kept[i], area2 |-> contourArea2(kept[i]),
             bbox |-> boundingRect(kept[i])]] \o <<>>

(***************************************************************************)
(* RailwayDetector._annotate_image: the image with what was drawn on it,   *)
(* in drawing order.                                                       *)
(***************************************************************************)
Rectangle(bbox) ==
    [kind |-> "rectangle", at |-> <<bbox[1], bbox[2]>>,
     to |-> <<bbox[1] + bbox[3], bbox[2] + bbox[4]>>,
     text |-> FString("", <<>>), colour |-> "red"]
Label(idx, bbox) ==
    [kind |-> "text", at |-> <<bbox[1], bbox[2] - 10>>,
     to |-> <<bbox[1], bbox[2] - 10>>,
     text |-> FString("#{}", <<idx>>), colour |-> "red"]
Banner(n) ==
    [kind |-> "text", at |-> <<10, 30>>, to |-> <<10, 30>>,
     text |-> FString("Anomalies detectees: {}", <<n>>), colour |-> "green"]

\* Mutant of _annotate_image: the labels numbered from 0.
_annotate_image_zero_based(image, anomalies) ==
    LET marks == [k \in 1..(2 * Len(anomalies)) |->
                    IF k % 2 = 1
                    THEN Rectangle(anomalies[(k + 1) \div 2].bbox)
                    ELSE Label((k \div 2) - 1, anomalies[k \div 2].bbox)]
    IN  [image EXCEPT !.drawn = @ \o marks \o <<Banner(Len(anomalies))>>]

_annotate_image(image, anomalies) ==
    LET marks == [k \in 1..(2 * Len(anomalies)) |->
                    IF k % 2 = 1
                    THEN Rectangle(anomalies[(k + 1) \div 2].bbox)
                    ELSE Label(k \div 2, anomalies[k \div 2].bbox)]
    IN  [image EXCEPT !.drawn = @ \o marks \o <<Banner(Len(anomalies))>>]

(***************************************************************************)
(* Paths and file names are sequences of one-character strings.            *)
(* os.path.splitext splits at the last dot of the last path component,     *)
(* unless only dots come before it in that component.                      *)
(***************************************************************************)
sep == "/"
extsep == "."

\* str.rfind, counting from 1: 0 when the character does not occur.
rfind(p, c) ==
    LET found == {i \in 1..Len(p) : p[i] = c}
    IN  IF found = {} THEN 0 ELSE CHOOSE i \in found : \A j \in found : j <= i

\* Mutant of splitext: split at the first dot of the last component.
splitext_first(p) ==
    LET sepIndex == rfind(p, sep)
        dots == {i \in (sepIndex + 1)..Len(p) : p[i] = extsep}
        dotIndex == IF dots = {} THEN 0
                    ELSE CHOOSE i \in dots : \A j \in dots : i <= j
    IN  IF dotIndex > sepIndex
           /\ \E i \in (sepIndex + 1)..(dotIndex - 1) : p[i] # extsep
        THEN <<SubSeq(p, 1, dotIndex - 1), SubSeq(p, dotIndex, Len(p))>>
        ELSE <<p, <<>>>>

splitext(p) ==
    LET sepIndex == rfind(p, sep)
        dotIndex == rfind(p, extsep)
    IN  IF dotIndex > sepIndex
           /\ \E i \in (sepIndex + 1)..(dotIndex - 1) : p[i] # extsep
        THEN <<SubSeq(p, 1, dotIndex - 1), SubSeq(p, dotIndex, Len(p))>>
        ELSE <<p, <<>>>>

\* os.path.join of a folder and a name.
join(a, b) ==
    IF Len(b) > 0 /\ b[1] = sep THEN b
    ELSE IF a = <<>> \/ a[Len(a)] = sep THEN a \o b
    ELSE a \o <<sep>> \o b

UPLOAD_FOLDER == <<"u", "p", "l", "o", "a", "d", "s">>

AnnotatedSuffix == <<"_", "a", "n", "n", "o", "t", "a", "t", "e", "d">>

\* f"{base_path}_annotated{ext}"
annotated_path(image_path) ==
    LET base_path == splitext(image_path)[1]
        ext == splitext(image_path)[2]
    IN  base_path \o AnnotatedSuffix \o ext

(***************************************************************************)
(* RailwayDetector.process_image.  A file is [path, exists, decodable,     *)
(* image, encodable, writable, elapsed]: image is what cv2.imread decodes, *)
(* encodable whether cv2.imwrite has an encoder for the extension of the   *)
(* annotated path (it raises cv2.error when it has none), writable whether *)
(* cv2.imwrite can write there (it returns False when it cannot), elapsed  *)
(* the wall-clock time the call takes.  The outcome holds the exception    *)
(* raised (or "none"), the returned dictionary, the original buffer after  *)
(* the call, the annotated buffer, and where and whether it was written.   *)
(***************************************************************************)
NoResult == [anomalies_count |-> -1]
NoImage == [width |-> 0, height |-> 0, contours |-> <<>>, drawn |-> <<>>]
NoPath == <<>>

\* Mutant of Raise: the annotated file written before the failure.
Raise_written(exception) ==
    [raised |-> exception, result |-> NoResult,
     anomalies |-> <<>>, image |-> NoImage, annotated |-> NoImage,
     annotated_path |-> NoPath, written |-> TRUE]

Raise(exception) ==
    [raised |-> exception, result |-> NoResult,
     anomalies |-> <<>>, image |-> NoImage, annotated |-> NoImage,
     annotated_path |-> NoPath, written |-> FALSE]

\* Mutant of process_image: the drawing made on the decoded buffer itself.
process_image_in_place(self, file) ==
    IF ~file.exists
    THEN Raise("FileNotFoundError")
    ELSE IF ~file.decodable
    THEN Raise("ValueError")
    ELSE LET image == file.image
             contours == _find_contours(image)
             anomalies == _filter_anomalies(self, contours)
             annotated_image == _annotate_image(image, anomalies)
             criticality_score ==
                 _calculate_criticality(Len(anomalies),
                                        image.height * image.width)
         IN  IF ~file.encodable
             THEN Raise("cv2.error")
             ELSE
             [raised |-> "none",
              result |->
                  [anomalies_count |-> Len(anomalies),
                   criticality_score |-> criticality_score,
                   processing_time |-> file.elapsed,
                   annotated_image_path |-> annotated_path(file.path),
                   image_dimensions |->
                       [width |-> image.width, height |-> image.height],
                   notes |-> _generate_notes(Len(anomalies), criticality_score)],
              anomalies |-> anomalies,
              image |-> annotated_image,
              annotated |-> annotated_image,
              annotated_path |-> annotated_path(file.path),
              written |-> file.writable]

process_image(self, file) ==
    IF ~file.exists
    THEN Raise("FileNotFoundError")
    ELSE IF ~file.decodable
    THEN Raise("ValueError")
    ELSE LET image == file.image
             contours == _find_contours(image)
             anomalies == _filter_anomalies(self, contours)
             \* image.copy(): _annotate_image draws on its argument, which
             \* is a copy; the decoded buffer stays as it was read.
             annotated_image == _annotate_image(image, anomalies)
             criticality_score ==
                 _calculate_criticality(Len(anomalies),
                                        image.height * image.width)
         IN  IF ~file.encodable
             THEN Raise("cv2.error")
             ELSE
             [raised |-> "none",
              result |->
                  [anomalies_count |-> Len(anomalies),
                   criticality_score |-> criticality_score,
                   processing_time |-> file.elapsed,
                   annotated_image_path |-> annotated_path(file.path),
                   image_dimensions |->
                       [width |-> image.width, height |-> image.height],
                   notes |-> _generate_notes(Len(anomalies), criticality_score)],
              anomalies |-> anomalies,
              image |-> image,
              annotated |-> annotated_image,
              annotated_path |-> annotated_path(file.path),
              \* cv2.imwrite returns False when it cannot write; the
              \* return value is not looked at.
              written |-> file.writable]

(***************************************************************************)
(* Inspection: the fields the level and the notes depend on.               *)
(***************************************************************************)
NoNotes == FString("None", <<>>)

Inspection(status, anomalies_count, criticality_score, notes) ==
    [status |-> status, anomalies_count |-> anomalies_count,
     criticality_score |-> criticality_score, notes |-> notes]

(***************************************************************************)
(* Inputs.                                                                 *)
(***************************************************************************)
\* (width, height) of the decoded images.
Dims == {<<800, 600>>, <<64, 48>>}
ImageSizes == {d[1] * d[2] : d \in Dims}

\* Twice the contour areas: 99.5, 100 and 2500 square pixels.
Areas2 == {199, 200, 5000}
PadArea2 == 2 * 2500
Elapsed == {0, 3}

Contour(i, area2) == [id |-> i, area2 |-> area2, bbox |-> <<60 * i, 40, 51, 51>>]

Heads == UNION {[1..k -> Areas2] : k \in 0..MaxContours}

ContoursOf(head, pad) ==
    [i \in 1..(Len(head) + pad) |->
        Contour(i, IF i <= Len(head) THEN head[i] ELSE PadArea2)] \o <<>>

Images ==
    {[width |-> d[1], height |-> d[2], contours |-> ContoursOf(h, k),
      drawn |-> <<>>] : d \in Dims, h \in Heads, k \in 0..MaxPad}

\* Paths given to the detector directly: every string of at most MaxPathLen
\* characters over a letter, the dot and the separator, and photo.jpg.
PathChars == {"a", extsep, sep}
Paths == {p \o <<>> : p \in UNION {[1..k -> PathChars] : k \in 0..MaxPathLen}}
PhotoPath == <<"p", "h", "o", "t", "o", ".", "j", "p", "g">>

\* The last component of a path, and the paths that can name a file.
basename(p) == SubSeq(p, rfind(p, sep) + 1, Len(p))
FilePaths ==
    {p \in Paths : basename(p) \notin {<<>>, <<extsep>>, <<extsep, extsep>>}}

MissingFile(path) ==
    [path |-> path, exists |-> FALSE, decodable |-> FALSE, image |-> NoImage,
     encodable |-> TRUE, writable |-> TRUE, elapsed |-> 0]
CorruptFile(path) ==
    [path |-> path, exists |-> TRUE, decodable |-> FALSE, image |-> NoImage,
     encodable |-> TRUE, writable |-> TRUE, elapsed |-> 0]
ImageFile(path, image, encodable, writable, elapsed) ==
    [path |-> path, exists |-> TRUE, decodable |-> TRUE, image |-> image,
     encodable |-> encodable, writable |-> writable, elapsed |-> elapsed]

SmallImage ==
    [width |-> 64, height |-> 48, contours |-> ContoursOf(<<5000, 199>>, 0),
     drawn |-> <<>>]

Files ==
    {MissingFile(p) : p \in Paths} \cup
    {CorruptFile(p) : p \in FilePaths} \cup
    {ImageFile(PhotoPath, im, TRUE, w, t)
        : im \in Images, w \in BOOLEAN, t \in Elapsed} \cup
    {ImageFile(p, SmallImage, e, w, 0)
        : p \in FilePaths, e \in BOOLEAN, w \in BOOLEAN}

PathInputs ==
    {[fn |-> "annotated_path", image_path |-> p] : p \in Paths \cup {PhotoPath}}
CalcInputs ==
    {[fn |-> "_calculate_criticality", anomalies_count |-> n, image_size |-> z]
        : n \in 0..MaxCount, z \in ImageSizes}
NotesInputs ==
    {[fn |-> "_generate_notes", anomalies_count |-> n, centi |-> k,
      criticality_score |-> FromDecimal(k, 100)]
        : n \in 0..MaxCount, k \in 0..MaxCenti}
LevelInputs ==
    {[fn |-> "get_criticality_level", milli |-> k,
      inspection |-> Inspection("pending", 0, FromDecimal(k, 1000), NoNotes)]
        : k \in 0..MaxMilli}
ProcessInputs == {[fn |-> "process_image", file |-> f] : f \in Files}

(***************************************************************************)
(* validators.py: an uploaded file is [present, filename, size, content];  *)
(* present is false when the request has no 'image' part.                  *)
(***************************************************************************)
ALLOWED_EXTENSIONS == {<<"p", "n", "g">>, <<"j", "p", "g">>, <<"j", "p", "e", "g">>}
MAX_FILE_SIZE == 10 * 1024 * 1024
MAX_CONTENT_LENGTH == MAX_FILE_SIZE

\* str.lower on the letters the file names of the model are made of.
lower_char(c) ==
    CASE c = "A" -> "a" [] c = "J" -> "j" [] c = "P" -> "p" [] c = "G" -> "g"
      [] OTHER -> c
lower(s) == [i \in 1..Len(s) |-> lower_char(s[i])] \o <<>>

allowed_file(filename) ==
    /\ rfind(filename, extsep) > 0
    /\ lower(SubSeq(filename, rfind(filename, extsep) + 1, Len(filename)))
           \in ALLOWED_EXTENSIONS

Valid == [raised |-> "none", message |-> FString("", <<>>)]
Invalid(message) == [raised |-> "ValidationError", message |-> message]

\* `not file`: a FileStorage is false when its filename is empty.
falsy(file) == ~file.present \/ file.filename = <<>>

validate_image_file(file) ==
    IF falsy(file)
    THEN Invalid(FString("No image file provided", <<>>))
    ELSE IF file.filename = <<>>
    THEN Invalid(FString("No file selected", <<>>))
    ELSE IF ~allowed_file(file.filename)
    THEN Invalid(FString("Invalid file type. Allowed: {}", <<ALLOWED_EXTENSIONS>>))
    ELSE IF file.size > MAX_FILE_SIZE
    THEN Invalid(FString("File too large. Max size: {}MB", <<MAX_FILE_SIZE \div (1024 * 1024)>>))
    ELSE Valid

(***************************************************************************)
(* werkzeug.utils.secure_filename on ASCII names: separators become        *)
(* spaces, runs of white space one underscore, characters outside          *)
(* [A-Za-z0-9_.-] are dropped, leading and trailing dots and underscores   *)
(* are stripped.                                                           *)
(***************************************************************************)
SafeChars ==
    {"a", "b", "g", "j", "n", "p", "t", "x", "A", "G", "J", "P", "_", ".", "-",
     "0", "1", "2", "3", "4", "5", "6", "7", "8", "9"}

secure_filename(filename) ==
    LET spaced == [i \in 1..Len(filename) |->
                      IF filename[i] = sep THEN " " ELSE filename[i]]
        inner(i) == /\ \E j \in 1..(i - 1) : spaced[j] # " "
                    /\ \E j \in (i + 1)..Len(spaced) : spaced[j] # " "
        kept == {i \in 1..Len(spaced) :
                    \/ spaced[i] # " "
                    \/ inner(i) /\ spaced[i - 1] # " "}
        nth(k) == CHOOSE i \in kept : Cardinality({j \in kept : j <= i}) = k
        joined == [k \in 1..Cardinality(kept) |->
                      IF spaced[nth(k)] = " " THEN "_" ELSE spaced[nth(k)]] \o <<>>
        ascii == SelectSeq(joined, LAMBDA c : c \in SafeChars)
        body == {i \in 1..Len(ascii) : ascii[i] \notin {".", "_"}}
    IN  IF body = {} THEN <<>>
        ELSE SubSeq(ascii,
                    CHOOSE i \in body : \A j \in body : i <= j,
                    CHOOSE i \in body : \A j \in body : j <= i)

(***************************************************************************)
(* The clock counts seconds from 2026-01-01 00:00:00; micro is the         *)
(* requests of one second are served at the same clock value.             *)
(***************************************************************************)
Digits == <<"0", "1", "2", "3", "4", "5", "6", "7", "8", "9">>
TwoDigits(n) == <<Digits[((n \div 10) % 10) + 1], Digits[(n % 10) + 1]>>

\* datetime.now().strftime('%Y%m%d_%H%M%S')
strftime(now) ==
    LET seconds == now
    IN  <<"2", "0", "2", "6", "0", "1", "0", "1", "_">>
            \o TwoDigits(seconds \div 3600) \o TwoDigits((seconds \div 60) % 60)
            \o TwoDigits(seconds % 60)

\* datetime.now().isoformat()
isoformat(now) ==
    FString("2026-01-01T{:02d}:{:02d}:{:02d}.{:06d}",
            <<now \div 3600, (now \div 60) % 60, now % 60, 0>>)

(***************************************************************************)
(* validators.validate_pagination_params.  The limit is None, a str (as    *)
(* request.args.get gives it) or an int.                                   *)
(***************************************************************************)
NoLimit == [type |-> "NoneType", value |-> 0]
StrLimit(chars) == [type |-> "str", value |-> chars]
IntLimit(n) == [type |-> "int", value |-> n]
DigitChars == {Digits[k] : k \in 1..10}

\* int(x) of an int or of a str: white space around is stripped, one sign
\* may lead, single underscores may separate the digits.
int(x) ==
    LET s == x.value
        inked == {i \in 1..Len(s) : s[i] # " "}
        lo == CHOOSE i \in inked : \A j \in inked : i <= j
        hi == CHOOSE i \in inked : \A j \in inked : i >= j
        stripped == SubSeq(s, lo, hi)
        body == IF stripped[1] \in {"-", "+"} THEN Tail(stripped) ELSE stripped
        literal ==
            /\ body # <<>>
            /\ \A i \in 1..Len(body) : body[i] \in DigitChars \cup {"_"}
            /\ body[1] # "_" /\ body[Len(body)] # "_"
            /\ \A i \in 1..(Len(body) - 1) : ~(body[i] = "_" /\ body[i + 1] = "_")
        digits == SelectSeq(body, LAMBDA c : c # "_")
        upto[i \in 0..Len(digits)] ==
            IF i = 0 THEN 0
            ELSE 10 * upto[i - 1] + (CHOOSE k \in 0..9 : Digits[k + 1] = digits[i])
        magnitude == upto[Len(digits)]
    IN  IF x.type = "int" THEN [raised |-> "none", value |-> x.value]
        ELSE IF x.type # "str" THEN [raised |-> "TypeError", value |-> 0]
        ELSE IF inked = {} \/ ~literal THEN [raised |-> "ValueError", value |-> 0]
        ELSE [raised |-> "none",
              value |-> IF stripped[1] = "-" THEN -magnitude ELSE magnitude]

\* `if limit`: None, the empty string and 0 are false.
truthy(limit) ==
    /\ limit.type # "NoneType"
    /\ limit.type = "str" => limit.value # <<>>
    /\ limit.type = "int" => limit.value # 0

\* Mutant of validate_pagination_params: the upper clamp left out.
validate_pagination_params_unclamped(limit, default, max_limit) ==
    LET parsed == IF ~truthy(limit) THEN default
                  ELSE IF int(limit).raised # "none" THEN default
                  ELSE int(limit).value
    IN  IF parsed < 1 THEN default ELSE parsed

validate_pagination_params(limit, default, max_limit) ==
    LET parsed == IF ~truthy(limit) THEN default
                  ELSE IF int(limit).raised # "none" THEN default
                  ELSE int(limit).value
    IN  IF parsed < 1 THEN default
        ELSE IF parsed > max_limit THEN max_limit
        ELSE parsed

\* The limits given: every string of at most MaxLimitLen characters over
\* three digits, the sign, the space, the underscore and a letter; the
\* integers around the two clamps; with the defaults of the endpoint and
\* with two narrower pairs (default, max_limit).
Limits ==
    {NoLimit}
    \cup {StrLimit(c \o <<>>)
            : c \in UNION {[1..k -> {"0", "1", "5", "-", " ", "_", "a"}]
                              : k \in 0..MaxLimitLen}}
    \cup {IntLimit(n) : n \in {-1, 0, 1, 2, 5, 10, 11, 100, 499, 500, 501}}
PaginationInputs ==
    {[fn |-> "validate_pagination_params", limit |-> l, default |-> p[1],
      max_limit |-> p[2]]
        : l \in Limits, p \in {<<100, 500>>, <<1, 1>>, <<5, 10>>}}

(***************************************************************************)
(* models.py: the inspections table is the rows in rowid order and the     *)
(* AUTOINCREMENT sequence (the largest id ever given).  An inspection that *)
(* has not been saved has id 0 (None); the ids of the table start at 1.    *)
(***************************************************************************)
None == [none |-> TRUE]
EmptyDatabase == [rows |-> <<>>, sequence |-> 0]

\* Inspection(filename=..., ...) as upload_inspection builds it.
NewInspection(filename, original_filename, upload_date, analysis_result) ==
    [id |-> 0,
     filename |-> filename,
     original_filename |-> original_filename,
     upload_date |-> upload_date,
     status |-> "completed",
     anomalies_count |-> analysis_result.anomalies_count,
     criticality_score |-> analysis_result.criticality_score,
     processing_time |-> analysis_result.processing_time,
     notes |-> analysis_result.notes]

\* Inspection.save: the row inserted, cursor.lastrowid, and self.id set.
save(inspection, database) ==
    LET inspection_id == database.sequence + 1
        saved == [inspection EXCEPT !.id = inspection_id]
    IN  [id |-> inspection_id,
         inspection |-> saved,
         db |-> [rows |-> Append(database.rows, saved),
                 sequence |-> inspection_id]]

\* Mutant of get_by_id: the row at that position of the table.
get_by_id_position(database, inspection_id) ==
    IF inspection_id \in 1..Len(database.rows)
    THEN database.rows[inspection_id]
    ELSE None

\* Inspection.get_by_id: SELECT * FROM inspections WHERE id = ?
get_by_id(database, inspection_id) ==
    LET found == SelectSeq(database.rows, LAMBDA row : row.id = inspection_id)
    IN  IF found = <<>> THEN None ELSE found[1]

\* DELETE FROM inspections WHERE id = ?
delete_row(database, inspection_id) ==
    [database EXCEPT
        !.rows = SelectSeq(@, LAMBDA row : row.id # inspection_id)]

\* ORDER BY upload_date: TEXT values compare byte by byte, which for the
\* zero-padded fields of isoformat is field by field.
TextGe(a, b) ==
    \E k \in 0..Len(a.values) :
        /\ \A i \in 1..k : a.values[i] = b.values[i]
        /\ k = Len(a.values) \/ a.values[k + 1] > b.values[k + 1]

\* The orders ORDER BY upload_date DESC can give the rows: rows of equal
\* upload_date come in an order SQL leaves open.
OrderByUploadDateDesc(rows) ==
    {[i \in 1..Len(rows) |-> rows[p[i]]] \o <<>>
        : p \in {q \in [1..Len(rows) -> 1..Len(rows)] :
                    /\ \A i, j \in 1..Len(rows) : i # j => q[i] # q[j]
                    /\ \A i, j \in 1..Len(rows) :
                           i < j => TextGe(rows[q[i]].upload_date,
                                           rows[q[j]].upload_date)}}

\* Mutant of get_all: ORDER BY upload_date ASC.
get_all_ascending(database, limit) ==
    {SubSeq(ordered, Len(ordered) + 1 - (IF limit < 0 \/ limit > Len(ordered) THEN Len(ordered) ELSE limit), Len(ordered))
        : ordered \in {[i \in 1..Len(o) |-> o[Len(o) + 1 - i]] \o <<>>
                          : o \in OrderByUploadDateDesc(database.rows)}}

\* Inspection.get_all: the lists SELECT * ... ORDER BY upload_date DESC
\* LIMIT ? can give; a negative LIMIT is no limit.
get_all(database, limit) ==
    {SubSeq(ordered, 1, IF limit < 0 \/ limit > Len(ordered) THEN Len(ordered) ELSE limit)
        : ordered \in OrderByUploadDateDesc(database.rows)}

\* Mutant of get_stats: medium counted from 0.4 on with no upper end.
get_stats_overlap(database) ==
    LET rows == database.rows
        SUM(when(_)) ==
            [none |-> rows = <<>>,
             value |-> Cardinality({i \in 1..Len(rows) :
                                      when(rows[i].criticality_score)})]
        or_0(sum) == IF sum.none THEN 0 ELSE sum.value
        high(score) == FGe(score, FromDecimal(7, 10))
        medium(score) == FGe(score, FromDecimal(4, 10))
        low(score) == FLt(score, FromDecimal(4, 10))
    IN  [total_inspections |-> Len(rows),
         criticality_distribution |->
             [high |-> or_0(SUM(high)), medium |-> or_0(SUM(medium)),
              low |-> or_0(SUM(low))],
         average_anomalies |->
             [round |-> 2, avg_of |-> [i \in 1..Len(rows) |-> rows[i].anomalies_count]]]

\* Inspection.get_stats.  SUM over no row is NULL, which `or 0` turns into
\* 0; the average is held as the counts it is the rounded mean of.
get_stats(database) ==
    LET rows == database.rows
        SUM(when(_)) ==
            [none |-> rows = <<>>,
             value |-> Cardinality({i \in 1..Len(rows) :
                                      when(rows[i].criticality_score)})]
        or_0(sum) == IF sum.none THEN 0 ELSE sum.value
        high(score) == FGe(score, FromDecimal(7, 10))
        medium(score) ==
            FGe(score, FromDecimal(4, 10)) /\ FLt(score, FromDecimal(7, 10))
        low(score) == FLt(score, FromDecimal(4, 10))
    IN  [total_inspections |-> Len(rows),
         criticality_distribution |->
             [high |-> or_0(SUM(high)), medium |-> or_0(SUM(medium)),
              low |-> or_0(SUM(low))],
         average_anomalies |->
             [round |-> 2, avg_of |-> [i \in 1..Len(rows) |-> rows[i].anomalies_count]]]

\* round(processing_time, 3) of a time held in microseconds.
round3(micros) ==
    LET whole == micros \div 1000
        rest == micros % 1000
        up == rest > 500 \/ (rest = 500 /\ whole % 2 = 1)
    IN  1000 * (IF up THEN whole + 1 ELSE whole)

to_dict(inspection) ==
    [id |-> inspection.id,
     filename |-> inspection.filename,
     original_filename |-> inspection.original_filename,
     upload_date |-> inspection.upload_date,
     status |-> inspection.status,
     anomalies_count |-> inspection.anomalies_count,
     criticality_score |-> round2(inspection.criticality_score),
     criticality_level |-> get_criticality_level(inspection.criticality_score),
     processing_time |-> round3(inspection.processing_time),
     notes |-> inspection.notes]

(***************************************************************************)
(* The upload folder: the files in it by path, each [decodable, image].    *)
(***************************************************************************)
EmptyFolder == <<>>
CorruptBytes == [decodable |-> FALSE, image |-> NoImage]
Encoded(image) == [decodable |-> TRUE, image |-> image]

Write(files, path, content) == (path :> content) @@ files
\* Mutant of Remove: the file left where it is.
Remove_nothing(files, path) == files
Remove(files, path) == [q \in (DOMAIN files) \ {path} |-> files[q]]

\* cv2.imwrite picks the encoder by the extension of the path.
HasEncoder(path) ==
    \E e \in ALLOWED_EXTENSIONS : lower(splitext(path)[2]) = <<extsep>> \o e

\* What process_image finds at a path of the folder.
FileAt(files, path, writable, elapsed) ==
    IF path \notin DOMAIN files
    THEN MissingFile(path)
    ELSE [path |-> path, exists |-> TRUE,
          decodable |-> files[path].decodable,
          image |-> files[path].image,
          encodable |-> HasEncoder(annotated_path(path)),
          writable |-> writable, elapsed |-> elapsed]

\* What process_image leaves in the folder.
AfterProcess(files, outcome) ==
    IF outcome.written
    THEN Write(files, outcome.annotated_path, Encoded(outcome.annotated))
    ELSE files

\* Mutant: a detector that raises its area threshold after each image.
process_image_self_adaptive(self, file) ==
    [self EXCEPT !.min_contour_area = @ + 1]

\* The detector after process_image: no attribute of self is assigned.
process_image_self(self, file) == self

\* str(e) of what process_image raises.
str(raised, image_path) ==
    CASE raised = "FileNotFoundError" -> FString("Image not found: {}", <<image_path>>)
      [] raised = "ValueError" -> FString("Cannot read image: {}", <<image_path>>)
      [] OTHER -> FString("could not find a writer for the specified extension", <<>>)

(***************************************************************************)
(* app.py: requests and responses.  An upload request is [file, chunked,   *)
(* limited, writable, db_ok, elapsed]: chunked says that it carries no     *)
(* Content-Length, limited whether Werkzeug then limits the stream while   *)
(* reading it, writable whether cv2.imwrite can write into the folder,     *)
(* db_ok whether the INSERT succeeds, elapsed the time the analysis takes  *)
(* in microseconds.                                                        *)
(***************************************************************************)
\* The multipart framing around the file counts in the length of the body.
MultipartOverhead == 128
body_length(request) ==
    IF request.file.present
    THEN request.file.size + MultipartOverhead
    ELSE 0

\* request.files: a body longer than MAX_CONTENT_LENGTH is refused with
\* RequestEntityTooLarge when the form is parsed.
RequestEntityTooLarge(request) ==
    /\ body_length(request) > MAX_CONTENT_LENGTH
    /\ ~request.chunked \/ request.limited

Response(status_code, body) == [status |-> status_code, body |-> body]

\* handle_validation_error, handle_not_found_error: {'error': message}.
\* handle_api_exception: error.to_dict(), the payload and 'error'.
ErrorResponse(status_code, message) ==
    Response(status_code, [error |-> message])
DetailedErrorResponse(status_code, message, details) ==
    Response(status_code, [details |-> details, error |-> message])

\* What one call of upload_inspection does: the response, the folder and
\* the database after it, and the images the detector returned a result for.
Outcome(response, files, database, results) ==
    [response |-> response, files |-> files, db |-> database,
     results |-> results]

\* The image of a returned result and what was found in it.
Results(analysis) ==
    {[image |-> analysis.image,
      anomalies_count |-> analysis.result.anomalies_count,
      criticality_score |-> analysis.result.criticality_score]}

\* Lines 214-219: the response to a saved inspection.
upload_created(saved, files, results) ==
    Outcome(Response(201, [success |-> TRUE,
                           inspection |-> to_dict(saved.inspection),
                           message |-> "Image analyzed successfully"]),
            files, saved.db, results)

\* Lines 196-219: the Inspection built from the result and saved.
upload_analysed(request, filename, original_filename, analysis, files, database, now) ==
    IF ~request.db_ok
    THEN \* DatabaseError
         Outcome(ErrorResponse(500, FString("Failed to save inspection: {}",
                                            <<"database is locked">>)),
                 files, database, Results(analysis))
    ELSE upload_created(
             save(NewInspection(filename, original_filename, isoformat(now),
                                analysis.result),
                  database),
             files, Results(analysis))

\* Lines 186-194: the analysis, and the upload removed when it fails.
upload_saved(request, filename, original_filename, filepath, analysis, files, database, now) ==
    IF analysis.raised # "none"
    THEN \* os.remove(filepath), ProcessingError
         Outcome(ErrorResponse(500, FString("Image analysis failed: {}",
                                            <<str(analysis.raised, filepath)>>)),
                 Remove(files, filepath), database, {})
    ELSE upload_analysed(request, filename, original_filename, analysis,
                         AfterProcess(files, analysis), database, now)

\* Lines 180-189: file.save(filepath) and detector.process_image(filepath).
upload_named(request, self, filename, original_filename, filepath, files, database, now) ==
    upload_saved(request, filename, original_filename, filepath,
                 process_image(self,
                     FileAt(Write(files, filepath, request.file.content),
                            filepath, request.writable, request.elapsed)),
                 Write(files, filepath, request.file.content), database, now)

\* Lines 177-180: the name and the path of the upload.
upload_validated(request, self, original_filename, timestamp, files, database, now) ==
    upload_named(request, self, timestamp \o <<"_">> \o original_filename,
                 original_filename,
                 join(UPLOAD_FOLDER, timestamp \o <<"_">> \o original_filename),
                 files, database, now)

upload_inspection(request, self, files, database, now) ==
    IF RequestEntityTooLarge(request)
    THEN \* except Exception: APIException('Internal server error', 500)
         Outcome(DetailedErrorResponse(500,
                     FString("Internal server error", <<>>),
                     FString("413 Request Entity Too Large", <<>>)),
                 files, database, {})
    ELSE IF validate_image_file(request.file).raised # "none"
    THEN Outcome(ErrorResponse(400, validate_image_file(request.file).message),
                 files, database, {})
    ELSE upload_validated(request, self, secure_filename(request.file.filename),
                          strftime(now), files, database, now)

\* GET /api/inspections/<id>
get_inspection(inspection_id, database) ==
    IF get_by_id(database, inspection_id) = None
    THEN ErrorResponse(404, FString("Inspection {} not found", <<inspection_id>>))
    ELSE Response(200, [success |-> TRUE,
                        inspection |-> to_dict(get_by_id(database, inspection_id))])

\* DELETE /api/inspections/<id>: the two files removed where they exist,
\* then the row.  When os.remove raises (remove_ok is false) the inner try
\* is left at the first file that exists and the row is deleted all the
\* same; when the DELETE statement raises (db_ok is false) the files are
\* gone and the row stays.
delete_inspection(inspection_id, remove_ok, db_ok, files, database) ==
    LET inspection == get_by_id(database, inspection_id)
        original_path == join(UPLOAD_FOLDER, inspection.filename)
        annotated_filename == annotated_path(inspection.filename)
        annotated == join(UPLOAD_FOLDER, annotated_filename)
        first == IF original_path \in DOMAIN files
                 THEN Remove(files, original_path) ELSE files
        second == IF annotated \in DOMAIN first
                  THEN Remove(first, annotated) ELSE first
        removed == IF remove_ok THEN second ELSE files
    IN  IF inspection = None
        THEN Outcome(Response(404, [error |-> FString("Inspection not found", <<>>),
                                    id |-> inspection_id]),
                     files, database, {})
        ELSE IF ~db_ok
        THEN Outcome(Response(500, [error |-> FString("Failed to delete inspection", <<>>),
                                    details |-> "database is locked"]),
                     removed, database, {})
        ELSE Outcome(Response(200, [success |-> TRUE,
                                    message |-> "Inspection deleted successfully",
                                    id |-> inspection_id]),
                     removed, delete_row(database, inspection_id), {})

(***************************************************************************)
(* State: the shared detector, the call being made and what it returned.   *)
(***************************************************************************)
\* disk is the upload folder, db the database, clock the time; seen collects,
\* for each result the detector returned, the image and what it found in it.
VARIABLES detector, pc, args, ret, disk, db, clock, seen

app == <<disk, db, clock, seen>>
vars == <<detector, pc, args, ret, disk, db, clock, seen>>

NoReturn == [none |-> TRUE]

Init ==
    /\ detector = RailwayDetector
    /\ pc = "call"
    /\ args \in CalcInputs \cup NotesInputs \cup LevelInputs
                \cup ProcessInputs \cup PathInputs \cup PaginationInputs
    /\ ret = NoReturn
    /\ disk = EmptyFolder
    /\ db = EmptyDatabase
    /\ clock = 0
    /\ seen = {}

Call_calculate_criticality ==
    /\ pc = "call"
    /\ args.fn = "_calculate_criticality"
    /\ ret' = _calculate_criticality(args.anomalies_count, args.image_size)
    /\ pc' = "returned"
    /\ UNCHANGED <<detector, args, app>>

Call_generate_notes ==
    /\ pc = "call"
    /\ args.fn = "_generate_notes"
    /\ ret' = _generate_notes(args.anomalies_count, args.criticality_score)
    /\ pc' = "returned"
    /\ UNCHANGED <<detector, args, app>>

Call_get_criticality_level ==
    /\ pc = "call"
    /\ args.fn = "get_criticality_level"
    /\ ret' = get_criticality_level(args.inspection.criticality_score)
    /\ pc' = "returned"
    /\ UNCHANGED <<detector, args, app>>

Call_process_image ==
    /\ pc = "call"
    /\ args.fn = "process_image"
    /\ ret' = process_image(detector, args.file)
    /\ pc' = "returned"
    /\ UNCHANGED <<detector, args, app>>

Call_annotated_path ==
    /\ pc = "call"
    /\ args.fn = "annotated_path"
    /\ ret' = annotated_path(args.image_path)
    /\ pc' = "returned"
    /\ UNCHANGED <<detector, args, app>>

Call_validate_pagination_params ==
    /\ pc = "call"
    /\ args.fn = "validate_pagination_params"
    /\ ret' = validate_pagination_params(args.limit, args.default,
                                         args.max_limit)
    /\ pc' = "returned"
    /\ UNCHANGED <<detector, args, app>>

\* An Inspection built from what the detector returned, and its level.
LevelOfScore ==
    /\ pc = "returned"
    /\ args.fn = "_calculate_criticality"
    /\ args' = [fn |-> "get_criticality_level", milli |-> -1,
                inspection |-> Inspection("completed", args.anomalies_count,
                                          ret, NoNotes)]
    /\ ret' = get_criticality_level(ret)
    /\ UNCHANGED <<detector, pc, app>>

LevelOfResult ==
    /\ pc = "returned"
    /\ args.fn = "process_image"
    /\ ret.raised = "none"
    /\ args' = [fn |-> "get_criticality_level", milli |-> -1,
                inspection |-> Inspection("completed", ret.result.anomalies_count,
                                          ret.result.criticality_score,
                                          ret.result.notes)]
    /\ ret' = get_criticality_level(ret.result.criticality_score)
    /\ UNCHANGED <<detector, pc, app>>

\* The Inspection upload_inspection builds from a result, as the response
\* shows it.
DictOfResult ==
    /\ pc = "returned"
    /\ args.fn = "process_image"
    /\ ret.raised = "none"
    /\ args' = [fn |-> "to_dict",
                inspection |-> NewInspection(basename(args.file.path),
                                             basename(args.file.path),
                                             isoformat(clock), ret.result)]
    /\ ret' = to_dict(NewInspection(basename(args.file.path),
                                    basename(args.file.path),
                                    isoformat(clock), ret.result))
    /\ UNCHANGED <<detector, pc, app>>

Next ==
    \/ Call_calculate_criticality
    \/ Call_generate_notes
    \/ Call_get_criticality_level
    \/ Call_process_image
    \/ Call_annotated_path
    \/ Call_validate_pagination_params
    \/ LevelOfScore
    \/ LevelOfResult
    \/ DictOfResult

Spec == Init /\ [][Next]_vars

(***************************************************************************)
(* The application: one detector, one database and one upload folder       *)
(* behind the three endpoints, and the clock.  The server takes a request  *)
(* when it is idle, handles it, and is idle again once the response is     *)
(* sent.                                                                   *)
(***************************************************************************)
UploadElapsed == 12345

OnePixel == [width |-> 64, height |-> 48, contours |-> ContoursOf(<<200>>, 0),
             drawn |-> <<>>]
TwoDefects == [width |-> 800, height |-> 600,
               contours |-> ContoursOf(<<199, 200>>, 1), drawn |-> <<>>]

NoFile == [present |-> FALSE, filename |-> <<>>, size |-> 0,
           content |-> CorruptBytes]
UploadFile(filename, size, content) ==
    [present |-> TRUE, filename |-> filename, size |-> size,
     content |-> content]
Request(file, chunked, limited, writable, db_ok) ==
    [file |-> file, chunked |-> chunked, limited |-> limited,
     writable |-> writable, db_ok |-> db_ok, elapsed |-> UploadElapsed]

a_jpg == <<"a", ".", "j", "p", "g">>
a_JPG == <<"a", ".", "J", "P", "G">>
dot_jpg == <<".", "j", "p", "g">>
a_txt == <<"a", ".", "t", "x", "t">>
a_space_a_png == <<"a", " ", "a", ".", "p", "n", "g">>
a_underscore_a_png == <<"a", "_", "a", ".", "p", "n", "g">>

\* Requests that validation or the form parser refuses.
RefusedRequests ==
    {Request(f, FALSE, FALSE, TRUE, TRUE)
        : f \in {NoFile,
                 UploadFile(<<>>, 1, Encoded(OnePixel)),
                 UploadFile(<<"a">>, 1, Encoded(OnePixel)),
                 UploadFile(a_txt, 1, Encoded(OnePixel)),
                 UploadFile(a_jpg, MAX_FILE_SIZE, Encoded(OnePixel)),
                 UploadFile(a_jpg, MAX_FILE_SIZE + 1, Encoded(OnePixel))}}
    \cup {Request(UploadFile(a_jpg, MAX_FILE_SIZE + 1, Encoded(OnePixel)),
                  TRUE, l, TRUE, TRUE) : l \in BOOLEAN}

\* Requests that pass validation.
AcceptedRequests ==
    {Request(UploadFile(a_jpg, 1, Encoded(OnePixel)), FALSE, FALSE, w, d)
        : w \in BOOLEAN, d \in BOOLEAN}
    \cup {Request(UploadFile(a_jpg, 1, Encoded(TwoDefects)),
                  FALSE, FALSE, TRUE, d) : d \in BOOLEAN}
    \cup {
          Request(UploadFile(a_jpg, 1, CorruptBytes), FALSE, FALSE, TRUE, TRUE),
          Request(UploadFile(a_jpg, MAX_FILE_SIZE, Encoded(OnePixel)),
                  TRUE, FALSE, TRUE, TRUE)}
    \cup {Request(UploadFile(name, 1, Encoded(OnePixel)), FALSE, FALSE, TRUE, TRUE)
            : name \in {a_JPG, dot_jpg, a_space_a_png, a_underscore_a_png}}

UploadRequests == RefusedRequests \cup AcceptedRequests
InspectionIds == 0..(MaxUploads + 1)

InitApp ==
    /\ detector = RailwayDetector
    /\ pc = "idle"
    /\ args = [fn |-> "none"]
    /\ ret = NoReturn
    /\ disk = EmptyFolder
    /\ db = EmptyDatabase
    /\ clock = 0
    /\ seen = {}

\* process_image is reached by the requests that are parsed and validated.
Validated(request) ==
    /\ ~RequestEntityTooLarge(request)
    /\ validate_image_file(request.file).raised = "none"

Post_upload ==
    \E request \in UploadRequests :
        LET outcome == upload_inspection(request, detector, disk, db, clock)
        IN  /\ pc = "idle"
            /\ db.sequence < MaxUploads
            /\ Cardinality(DOMAIN disk) < 2 * MaxUploads
            /\ args' = [fn |-> "upload_inspection", request |-> request]
            /\ ret' = outcome.response
            /\ disk' = outcome.files
            /\ db' = outcome.db
            /\ seen' = seen \cup outcome.results
            /\ detector' = IF Validated(request)
                           THEN process_image_self(detector, request.file)
                           ELSE detector
            /\ pc' = "responded"
            /\ UNCHANGED clock

Get_inspection ==
    \E inspection_id \in InspectionIds :
        /\ pc = "idle"
        /\ args' = [fn |-> "get_inspection", inspection_id |-> inspection_id]
        /\ ret' = get_inspection(inspection_id, db)
        /\ pc' = "responded"
        /\ UNCHANGED <<detector, app>>

Delete_inspection ==
    \E inspection_id \in InspectionIds, remove_ok \in BOOLEAN, db_ok \in BOOLEAN :
        LET outcome == delete_inspection(inspection_id, remove_ok, db_ok, disk, db)
        IN  /\ pc = "idle"
            /\ args' = [fn |-> "delete_inspection",
                        inspection_id |-> inspection_id,
                        remove_ok |-> remove_ok, db_ok |-> db_ok]
            /\ ret' = outcome.response
            /\ disk' = outcome.files
            /\ db' = outcome.db
            /\ pc' = "responded"
            /\ UNCHANGED <<detector, clock, seen>>

NoRequest == [fn |-> "none"]

Respond ==
    /\ pc = "responded"
    /\ pc' = "idle"
    /\ args' = NoRequest
    /\ ret' = NoReturn
    /\ UNCHANGED <<detector, app>>

Tick ==
    /\ clock < MaxClock
    /\ clock' = clock + 1
    /\ UNCHANGED <<detector, pc, args, ret, disk, db, seen>>

NextApp ==
    \/ Post_upload
    \/ Get_inspection
    \/ Delete_inspection
    \/ Respond
    \/ Tick

SpecApp == InitApp /\ [][NextApp]_vars

(***************************************************************************)
(* The database on its own: inspections saved one after the other, and    *)
(* the two queries over all of them.                                       *)
(***************************************************************************)
\* What the saved inspections carry: scores below, at and between the two
\* thresholds of the levels.
SavedResults ==
    {[anomalies_count |-> r[1], criticality_score |-> FromDecimal(r[2], 100),
      processing_time |-> 0, notes |-> NoNotes]
        : r \in {<<5, 20>>, <<15, 40>>, <<29, 69>>, <<35, 70>>}}

Save_inspection ==
    \E result \in SavedResults :
        LET saved == save(NewInspection(a_jpg, a_jpg, isoformat(clock), result),
                          db)
        IN  /\ pc = "idle"
            /\ db.sequence < MaxUploads
            /\ args' = [fn |-> "save", inspection |-> saved.inspection]
            /\ ret' = saved.id
            /\ db' = saved.db
            /\ pc' = "responded"
            /\ UNCHANGED <<detector, disk, clock, seen>>

Call_get_all ==
    \E limit \in 0..(MaxUploads + 1) :
        \E inspections \in get_all(db, limit) :
            /\ pc = "idle"
            /\ args' = [fn |-> "get_all", limit |-> limit]
            /\ ret' = inspections
            /\ pc' = "responded"
            /\ UNCHANGED <<detector, app>>

Call_get_stats ==
    /\ pc = "idle"
    /\ args' = [fn |-> "get_stats"]
    /\ ret' = get_stats(db)
    /\ pc' = "responded"
    /\ UNCHANGED <<detector, app>>

NextDb ==
    \/ Save_inspection
    \/ Call_get_all
    \/ Call_get_stats
    \/ Respond
    \/ Tick

SpecDb == InitApp /\ [][NextDb]_vars

(***************************************************************************)
(* Properties.                                                             *)
(***************************************************************************)
Returned(fn) == pc = "returned" /\ args.fn = fn
Analysed == Returned("process_image") /\ ret.raised = "none"

One == FromDecimal(1, 1)
PassesFilter(contour) == contour.area2 >= 2 * 100

\* The piecewise formula of the score for a count n >= 1.
PiecewiseReference(n) ==
    IF n <= 10
    THEN FAdd(FromDecimal(5, 100), FMulInt(n, FromDecimal(3, 100)))
    ELSE IF n <= 30
    THEN FAdd(FromDecimal(4, 10), FMulInt(n - 10, FromDecimal(15, 1000)))
    ELSE FMin(FAdd(FromDecimal(7, 10), FMulInt(n - 30, FromDecimal(1, 100))),
              One)

\* C1: for every count n >= 1 and every image size, the score returned by
\* _calculate_criticality (called directly or by process_image) is the
\* piecewise formula of n alone: 0.05 + 0.03 n up to 10, 0.4 + 0.015 (n - 10)
\* up to 30, min(0.7 + 0.01 (n - 30), 1.0) from 31 on.
C1_ScoreIsPiecewise ==
    /\ Returned("_calculate_criticality") /\ args.anomalies_count >= 1
           => ret = PiecewiseReference(args.anomalies_count)
    /\ Analysed /\ ret.result.anomalies_count >= 1
           => ret.result.criticality_score
                  = PiecewiseReference(ret.result.anomalies_count)

C1_Witness ==
    /\ Returned("_calculate_criticality")
    /\ args.anomalies_count = 31
    /\ args.image_size = 64 * 48
    /\ ret = FromDecimal(71, 100)

\* C2: the score is monotonic non-decreasing in the count: the score of every
\* smaller count m, for any image size, is at most the score returned for n.
C2_ScoreMonotonic ==
    Returned("_calculate_criticality") =>
        \A m \in 0..args.anomalies_count : \A z \in ImageSizes :
            FLe(_calculate_criticality(m, z), ret)

C2_Witness ==
    /\ Returned("_calculate_criticality")
    /\ args.anomalies_count = 11
    /\ FLt(_calculate_criticality(10, args.image_size), ret)

\* C3: the score lies in [0.0, 1.0]; it is 0.0 for count 0, below 1.0 for
\* every count under 60 and exactly 1.0 from count 60 on.
ScoreInRange(n, s) ==
    /\ FGe(s, FZero)
    /\ FLe(s, One)
    /\ n = 0 => s = FZero
    /\ n < 60 => FLt(s, One)
    /\ n >= 60 => s = One

C3_ScoreRange ==
    /\ Returned("_calculate_criticality") => ScoreInRange(args.anomalies_count, ret)
    /\ Analysed => ScoreInRange(ret.result.anomalies_count,
                                ret.result.criticality_score)

C3_Witness ==
    /\ Returned("_calculate_criticality")
    /\ args.anomalies_count = 60
    /\ ret = One

\* C4 as stated: at each breakpoint b in {10, 30} the ramp that ends at b and
\* the ramp that starts after b give the same value at b.
C4_ContinuousAtBreakpoints ==
    Returned("_calculate_criticality") =>
        /\ args.anomalies_count = 10 => ret = Ramp1(10) /\ Ramp1(10) = Ramp2(10)
        /\ args.anomalies_count = 30 => ret = Ramp2(30) /\ Ramp2(30) = Ramp3(30)

\* C4 as amended: the ramps meet at 30 only.  Ramp2(30) = Ramp3(30) = 0.7 is
\* score(30) and score(31) = 0.71; at 10 the score jumps: score(10) =
\* Ramp1(10) = 0.35 while the next ramp starts from Ramp2(10) = 0.4, and
\* score(11) is the float 0.4 + 0.015, within 0.0001 of 0.415.
C4_ContinuousAt30Only ==
    Returned("_calculate_criticality") =>
        /\ args.anomalies_count = 10 =>
               /\ ret = Ramp1(10)
               /\ ret = FromDecimal(35, 100)
               /\ Ramp2(10) = FromDecimal(4, 10)
        /\ args.anomalies_count = 11 =>
               /\ ret = FAdd(FromDecimal(4, 10), FromDecimal(15, 1000))
               /\ FGt(ret, FromDecimal(4149, 10000))
               /\ FLt(ret, FromDecimal(4151, 10000))
        /\ args.anomalies_count = 30 =>
               /\ ret = Ramp2(30)
               /\ ret = Ramp3(30)
               /\ ret = FromDecimal(7, 10)
        /\ args.anomalies_count = 31 => ret = FromDecimal(71, 100)

C4_Witness ==
    /\ Returned("_calculate_criticality")
    /\ args.anomalies_count = 30
    /\ ret = Ramp3(30)
    /\ Ramp1(10) # Ramp2(10)

\* C5: get_criticality_level gives every score exactly one level: "high" iff
\* the score is >= 0.7, "medium" iff it is in [0.4, 0.7), "low" iff it is
\* below 0.4; for a score written as the decimal k/1000 that is k >= 700,
\* 400 <= k < 700 and k < 400 (0.39 low, 0.4 medium, 0.69 medium, 0.70 high).
C5_LevelThresholds ==
    Returned("get_criticality_level") =>
        LET s == args.inspection.criticality_score
            k == args.milli
        IN  /\ ret \in {"low", "medium", "high"}
            /\ ret = "high" <=> FGe(s, FromDecimal(7, 10))
            /\ ret = "medium" <=> FGe(s, FromDecimal(4, 10)) /\ FLt(s, FromDecimal(7, 10))
            /\ ret = "low" <=> FLt(s, FromDecimal(4, 10))
            /\ k >= 0 =>
                   /\ ret = "high" <=> k >= 700
                   /\ ret = "medium" <=> 400 <= k /\ k < 700
                   /\ ret = "low" <=> k < 400

C5_Witness ==
    /\ Returned("get_criticality_level")
    /\ args.milli = 700
    /\ ret = "high"

\* C6 as stated: the level of the score of n anomalies is "low" for n in
\* 0..10, "medium" for n in 11..30 and "high" from 31 on.
C6_LevelBands ==
    Returned("get_criticality_level") /\ args.milli = -1 =>
        LET n == args.inspection.anomalies_count
        IN  ret = IF n <= 10 THEN "low"
                  ELSE IF n <= 30 THEN "medium"
                  ELSE "high"

FourTemplates == {CriticalTemplate, WarningTemplate, InfoTemplate, OkTemplate}

\* C7 as stated: the note is one of the four fixed templates and every one of
\* them embeds the anomaly count the function was called with.
C7_EveryTemplateEmbedsCount ==
    Returned("_generate_notes") =>
        /\ ret.template \in FourTemplates
        /\ ret.values = <<args.anomalies_count>>

\* C7 as amended: the note is one of the four fixed templates, chosen by
\* (count, score) alone; the CRITICAL, WARNING and INFO templates embed the
\* count, the OK template embeds nothing and is returned only for count 0.
NoteOf(note, n) ==
    /\ note.template \in FourTemplates
    /\ note.template # OkTemplate => note.values = <<n>>
    /\ note.template = OkTemplate => note.values = <<>> /\ n = 0

C7_ThreeTemplatesEmbedCount ==
    /\ Returned("_generate_notes") =>
           /\ NoteOf(ret, args.anomalies_count)
           /\ ret.template = CriticalTemplate <=> args.centi >= 70
           /\ ret.template = WarningTemplate <=> 40 <= args.centi /\ args.centi < 70
           /\ ret.template = InfoTemplate <=> args.centi < 40 /\ args.anomalies_count > 0
    /\ Analysed => NoteOf(ret.result.notes, ret.result.anomalies_count)

C7_Witness ==
    /\ Returned("_generate_notes")
    /\ args.anomalies_count = 0
    /\ args.centi = 39
    /\ ret = FString(OkTemplate, <<>>)

\* C8: when no contour passes the area filter, process_image reports count 0,
\* score 0.0 and the OK note; and every result carrying the OK note has
\* count 0.
C8_NoAnomalyIsOk ==
    Analysed =>
        LET contours == args.file.image.contours
        IN  /\ (\A i \in 1..Len(contours) : ~PassesFilter(contours[i])) =>
                   /\ ret.result.anomalies_count = 0
                   /\ ret.result.criticality_score = FZero
                   /\ ret.result.notes = FString(OkTemplate, <<>>)
            /\ ret.result.notes.template = OkTemplate =>
                   ret.result.anomalies_count = 0

C8_Witness ==
    /\ Analysed
    /\ Len(args.file.image.contours) = 2
    /\ \A i \in 1..2 : args.file.image.contours[i].area2 = 199
    /\ ret.result.anomalies_count = 0
    /\ ret.result.notes.template = OkTemplate

IsLabel(mark) == mark.kind = "text" /\ mark.text.template = "#{}"
IsBanner(mark) == mark.kind = "text" /\ mark.text.template = "Anomalies detectees: {}"

\* C10: the anomalies keep the order of the contours they come from and are
\* labelled 1..anomalies_count in that order, each index on exactly one
\* anomaly; the banner shows the count, which is the highest index (0 when
\* there is no anomaly).
C10_SequentialIndices ==
    Analysed =>
        LET anomalies == ret.anomalies
            n == ret.result.anomalies_count
            labels == SelectSeq(ret.annotated.drawn, IsLabel)
            banners == SelectSeq(ret.annotated.drawn, IsBanner)
        IN  /\ \A j, k \in 1..Len(anomalies) :
                   j < k => anomalies[j].contour.id < anomalies[k].contour.id
            /\ Len(labels) = n
            /\ \A k \in 1..n :
                   /\ labels[k].text.values = <<k>>
                   /\ labels[k].at = <<anomalies[k].bbox[1], anomalies[k].bbox[2] - 10>>
                   /\ anomalies[k].bbox = anomalies[k].contour.bbox
            /\ Len(banners) = 1
            /\ banners[1].text.values = <<n>>
            /\ n = Len(labels)

C10_Witness ==
    /\ Analysed
    /\ Len(args.file.image.contours) = 3
    /\ args.file.image.contours[2].area2 = 199
    /\ ret.result.anomalies_count = 2
    /\ ret.anomalies[2].contour.id = 3
    /\ ret.annotated.drawn[4].text = FString("#{}", <<2>>)

(***************************************************************************)
(* Failures and side effects of process_image.                             *)
(***************************************************************************)
Called(fn) == Returned(fn) \/ (pc = "call" /\ args.fn = fn)
Unreadable == ~args.file.exists \/ ~args.file.decodable
Unwritten == ~args.file.encodable \/ ~args.file.writable

C13_WriteFailureRaises ==
    /\ (Returned("process_image") /\ ~Unreadable /\ Unwritten) =>
           ret.raised = "AnnotationWriteError" /\ ret.result = NoResult
    /\ Analysed => ret.written

\* C15: the drawing is made on a copy: after process_image the decoded
\* buffer is what was read, the dimensions reported are its dimensions, the
\* annotated buffer has the same dimensions, and the one file written is not
\* the input file.
C15_OriginalUntouched ==
    Analysed =>
        /\ ret.image = args.file.image
        /\ ret.result.image_dimensions =
               [width |-> args.file.image.width,
                height |-> args.file.image.height]
        /\ ret.annotated.width = args.file.image.width
        /\ ret.annotated.height = args.file.image.height
        /\ ret.annotated.contours = args.file.image.contours
        /\ ret.annotated_path # args.file.path

C15_Witness ==
    /\ Analysed
    /\ ret.written
    /\ Len(ret.annotated.drawn) = 5
    /\ ret.image.drawn = <<>>
    /\ ret.image.width = 800

\* The extension of a path starts at position k: a dot with no dot and no
\* separator after it, and in its path component a character before it that
\* is not a dot (os.path's notion: .jpg and photo have no extension).
ExtensionAt(p, k) ==
    /\ k \in 1..Len(p)
    /\ p[k] = extsep
    /\ \A i \in (k + 1)..Len(p) : p[i] \notin {extsep, sep}
    /\ \E i \in 1..(k - 1) :
           p[i] # extsep /\ \A j \in i..k : p[j] # sep
ExtensionStart(p) ==
    IF \E k \in 1..Len(p) : ExtensionAt(p, k)
    THEN CHOOSE k \in 1..Len(p) : ExtensionAt(p, k)
    ELSE Len(p) + 1
DirectoryOf(p) == SubSeq(p, 1, rfind(p, sep))

\* q is p with _annotated put in right before the extension of p.
InsertedBeforeExtension(p, q) ==
    LET k == ExtensionStart(p)
    IN  /\ q = SubSeq(p, 1, k - 1) \o AnnotatedSuffix \o SubSeq(p, k, Len(p))
        /\ DirectoryOf(q) = DirectoryOf(p)
        /\ SubSeq(q, ExtensionStart(q), Len(q)) = SubSeq(p, k, Len(p))
        /\ q # p

\* C16: the annotated path is the input path with _annotated inserted
\* immediately before the final extension, directory and extension kept;
\* it is the path returned as annotated_image_path and the path written;
\* it differs from the input path; and delete_inspection, which derives it
\* from the file name and then joins the upload folder, gets the same path.
C16_AnnotatedPath ==
    /\ Returned("annotated_path") =>
           /\ InsertedBeforeExtension(args.image_path, ret)
           /\ rfind(args.image_path, sep) = 0 =>
                  join(UPLOAD_FOLDER, ret) =
                      annotated_path(join(UPLOAD_FOLDER, args.image_path))
    /\ Analysed =>
           /\ InsertedBeforeExtension(args.file.path, ret.annotated_path)
           /\ ret.result.annotated_image_path = ret.annotated_path

C16_Witness ==
    /\ Analysed
    /\ args.file.path = PhotoPath
    /\ ret.written
    /\ ret.result.annotated_image_path =
           <<"p", "h", "o", "t", "o">> \o AnnotatedSuffix \o <<".", "j", "p", "g">>

(***************************************************************************)
(* Properties of the application.                                          *)
(***************************************************************************)
Served(fn) == pc = "responded" /\ args.fn = fn
Uploaded == Served("upload_inspection")
Created == Uploaded /\ ret.status = 201
Serving(fn) == pc = "idle" /\ pc' = "responded" /\ args'.fn = fn
HasError(response) == "error" \in DOMAIN response.body
RowIds == {db.rows[i].id : i \in 1..Len(db.rows)}
RowOf(inspection_id) ==
    db.rows[CHOOSE i \in 1..Len(db.rows) : db.rows[i].id = inspection_id]

\* C11: the detector keeps its configuration whatever requests it served,
\* and it found the same number of anomalies and the same score each time
\* it was given the same image.
C11_SameImageSameResult ==
    /\ detector = [canny_threshold1 |-> 50, canny_threshold2 |-> 150,
                   min_contour_area |-> 100, blur_kernel_size |-> 5]
    /\ \A a, b \in seen :
           a.image = b.image =>
               /\ a.anomalies_count = b.anomalies_count
               /\ a.criticality_score = b.criticality_score

\* Two stored uploads of the same image, and another image analysed as well.
C11_Witness ==
    /\ Len(db.rows) = 2
    /\ Cardinality(seen) = 2
    /\ db.rows[1].anomalies_count = 1
    /\ db.rows[2].anomalies_count = 1
    /\ db.rows[1].criticality_score = db.rows[2].criticality_score
    /\ \E r \in seen : r.anomalies_count = 2

\* C14: an upload is answered 201, with its record stored, only when its
\* annotated image was written; when the write fails no record is stored.
C14_RecordOnlyWithAnnotation ==
    Uploaded =>
        /\ Created =>
               join(UPLOAD_FOLDER, annotated_path(ret.body.inspection.filename))
                   \in DOMAIN disk
        /\ ~args.request.writable =>
               /\ ret.status # 201
               /\ Len(db.rows) = 0

\* The analysis of an upload fails: its bytes are no image, or its
\* sanitised name has no extension for cv2.imwrite to pick an encoder by.
AnalysisFails(request) ==
    \/ ~request.file.content.decodable
    \/ rfind(secure_filename(request.file.filename), extsep) = 0

\* C17: when process_image fails during an upload, the saved upload is
\* removed, no record is stored, and the response is a 500 with an error.
C17_FailedUploadCleanedUp ==
    [][(Serving("upload_inspection") /\ Validated(args'.request)
            /\ AnalysisFails(args'.request)) =>
           /\ join(UPLOAD_FOLDER,
                   strftime(clock) \o <<"_">>
                       \o secure_filename(args'.request.file.filename))
                  \notin DOMAIN disk'
           /\ db' = db
           /\ ret'.status = 500
           /\ HasError(ret')
           /\ ret'.body.error.template = "Image analysis failed: {}"]_vars

C17_Witness ==
    /\ Uploaded
    /\ args.request.file.content = CorruptBytes
    /\ ret.status = 500
    /\ DOMAIN disk = {}
    /\ Len(db.rows) = 0

\* C18: the stored uploads have pairwise distinct saved paths and annotated
\* paths, and no saved path is the annotated path of another upload.
C18_UniquePaths ==
    \A i, j \in 1..Len(db.rows) :
        i # j =>
            /\ db.rows[i].filename # db.rows[j].filename
            /\ annotated_path(db.rows[i].filename)
                   # annotated_path(db.rows[j].filename)
            /\ db.rows[i].filename # annotated_path(db.rows[j].filename)

\* What validation has to refuse: no file, an empty file name, an extension
\* other than png, jpg, jpeg, or more than 10 MB.
Refusable(request) ==
    \/ ~request.file.present
    \/ request.file.filename = <<>>
    \/ \A k \in 1..Len(request.file.filename) :
           \/ request.file.filename[k] # "."
           \/ lower(SubSeq(request.file.filename, k + 1,
                           Len(request.file.filename)))
                  \notin {<<"p", "n", "g">>, <<"j", "p", "g">>,
                          <<"j", "p", "e", "g">>}
    \/ request.file.size > 10 * 1024 * 1024

\* C19: an upload that fails validation is answered 400 with an 'error'
\* field, and nothing is saved, analysed or stored.
C19_RefusedWith400 ==
    [][(Serving("upload_inspection") /\ Refusable(args'.request)) =>
           /\ ret'.status = 400
           /\ HasError(ret')
           /\ disk' = disk
           /\ db' = db
           /\ seen' = seen]_vars

\* C20: a saved inspection gets a positive id, which is the id the response
\* and the row carry; get_by_id gives, for an id of the table, the row with
\* that id and the saved fields, and None for any other id, which
\* GET /api/inspections/<id> answers with 404 and an 'error' field.
C20_SaveAndLookUp ==
    /\ \A i, j \in 1..Len(db.rows) :
           /\ db.rows[i].id > 0
           /\ i # j => db.rows[i].id # db.rows[j].id
    /\ \A inspection_id \in InspectionIds :
           IF inspection_id \in RowIds
           THEN /\ get_by_id(db, inspection_id).id = inspection_id
                /\ get_by_id(db, inspection_id) = RowOf(inspection_id)
           ELSE get_by_id(db, inspection_id) = None
    /\ Created =>
           /\ ret.body.inspection.id > 0
           /\ ret.body.inspection.id \in RowIds
           /\ ret.body.inspection.id = db.sequence
           /\ to_dict(get_by_id(db, ret.body.inspection.id)) = ret.body.inspection
           /\ get_by_id(db, ret.body.inspection.id).original_filename =
                  secure_filename(args.request.file.filename)
           /\ \E r \in seen :
                  /\ Encoded(r.image) = args.request.file.content
                  /\ r.anomalies_count =
                         get_by_id(db, ret.body.inspection.id).anomalies_count
                  /\ r.criticality_score =
                         get_by_id(db, ret.body.inspection.id).criticality_score
    /\ Served("get_inspection") =>
           IF args.inspection_id \in RowIds
           THEN /\ ret.status = 200
                /\ ret.body.inspection = to_dict(RowOf(args.inspection_id))
           ELSE ret.status = 404 /\ HasError(ret)

\* The second of two inspections looked up after the first was deleted.
C20_Witness ==
    /\ Served("get_inspection")
    /\ args.inspection_id = 2
    /\ RowIds = {2}
    /\ ret.status = 200
    /\ ret.body.inspection.id = 2

(***************************************************************************)
(* The note and the level of one score.                                    *)
(***************************************************************************)
SeverityAgrees(note, criticality_score) ==
    LET level == get_criticality_level(criticality_score)
    IN  /\ note.template = CriticalTemplate <=> level = "high"
        /\ note.template = WarningTemplate <=> level = "medium"
        /\ note.template \in {InfoTemplate, OkTemplate} <=> level = "low"

\* C25: for every (count, score) the note is the CRITICAL template exactly
\* when the level of the score is "high", the WARNING template exactly when
\* it is "medium", and the INFO or the OK template exactly when it is "low";
\* so it is for the note and the score of every result of process_image.
C25_NoteAgreesWithLevel ==
    /\ Returned("_generate_notes") =>
           SeverityAgrees(ret, args.criticality_score)
    /\ Analysed =>
           SeverityAgrees(ret.result.notes, ret.result.criticality_score)

\* A WARNING for one anomaly at the score 0.4, which is "medium".
C25_Witness ==
    /\ Returned("_generate_notes")
    /\ args.anomalies_count = 1
    /\ args.centi = 40
    /\ ret.template = WarningTemplate
    /\ get_criticality_level(args.criticality_score) = "medium"

(***************************************************************************)
(* The score and the level of one response.                                *)
(***************************************************************************)
\* The two-decimal values x can be rounded to: the nearest one, and both
\* neighbours when 100 x is within 2^-21 of a half.
RoundedEitherWay(x) ==
    LET scaled == ExactMulInt(100, x)
        whole == scaled.hi \div Base
        rest == scaled.hi % Base
    IN  {FromDecimal(k, 100)
           : k \in (IF rest >= (Base \div 2) - 1 THEN {whole + 1} ELSE {})
                   \cup (IF rest <= Base \div 2 THEN {whole} ELSE {})}

\* C26: for the inspection built from a result of the pipeline, the
\* criticality_level to_dict reports is the level of the criticality_score
\* it reports, and of the score rounded to two decimals either way at a tie.
C26_LevelOfRoundedScore ==
    Returned("to_dict") =>
        /\ ret.criticality_level = get_criticality_level(ret.criticality_score)
        /\ ret.criticality_score \in
               RoundedEitherWay(args.inspection.criticality_score)
        /\ \A r \in RoundedEitherWay(args.inspection.criticality_score) :
               get_criticality_level(r) = ret.criticality_level

\* 29 anomalies: the score 0.685, a tie between 0.68 and 0.69.
C26_Witness ==
    /\ Returned("to_dict")
    /\ args.inspection.anomalies_count = 29
    /\ Cardinality(RoundedEitherWay(args.inspection.criticality_score)) = 2
    /\ ret.criticality_level = "medium"
    /\ ret.criticality_score \in {FromDecimal(68, 100), FromDecimal(69, 100)}

(***************************************************************************)
(* Pagination.                                                             *)
(***************************************************************************)
Clamped(n, default, max_limit) ==
    IF n < 1 THEN default ELSE IF n > max_limit THEN max_limit ELSE n

\* The number whose decimal places are the digits of the string.
PlainDecimal(chars) ==
    LET place(i) == CHOOSE k \in 0..9 : Digits[k + 1] = chars[i]
    IN  CHOOSE v \in 0..(10 ^ Len(chars) - 1) :
            \A i \in 1..Len(chars) :
                (v \div (10 ^ (Len(chars) - i))) % 10 = place(i)

\* C23: given 1 <= default <= max_limit, validate_pagination_params returns
\* an integer in 1..max_limit: default for a missing, an empty, a
\* non-numeric and a < 1 limit, max_limit for a limit above max_limit, and
\* a limit in 1..max_limit itself.
C23_LimitClamped ==
    Returned("validate_pagination_params") =>
        LET limit == args.limit
            chars == limit.value
        IN  /\ ret \in 1..args.max_limit
            /\ limit.type = "NoneType" => ret = args.default
            /\ limit.type = "int" =>
                   ret = Clamped(limit.value, args.default, args.max_limit)
            /\ limit.type = "str" =>
                   /\ chars = <<>> => ret = args.default
                   /\ (\E i \in 1..Len(chars) : chars[i] = "a") =>
                          ret = args.default
                   /\ (chars # <<>> /\ \A i \in 1..Len(chars) :
                                           chars[i] \in DigitChars) =>
                          ret = Clamped(PlainDecimal(chars), args.default,
                                        args.max_limit)
                   /\ (Len(chars) > 1 /\ chars[1] = "-"
                          /\ \A i \in 2..Len(chars) :
                                 chars[i] \in DigitChars) =>
                          ret = args.default

\* "501" with the defaults of the endpoint gives 500.
C23_Witness ==
    /\ Returned("validate_pagination_params")
    /\ args.limit = StrLimit(<<"5", "0", "1">>)
    /\ args.default = 100
    /\ args.max_limit = 500
    /\ ret = 500

(***************************************************************************)
(* The queries over all the inspections.                                   *)
(***************************************************************************)
Rows == {db.rows[i] : i \in 1..Len(db.rows)}
StoredWithLevel(level) ==
    Cardinality({i \in 1..Len(db.rows) :
                   get_criticality_level(db.rows[i].criticality_score) = level})

\* C21: get_stats gives total_inspections as the number of stored
\* inspections and high, medium and low as the numbers of stored inspections
\* whose get_criticality_level is that level, so the three add up to the
\* total; on an empty database all four are 0.
C21_StatsCountLevels ==
    Served("get_stats") =>
        LET distribution == ret.criticality_distribution
        IN  /\ ret.total_inspections = Len(db.rows)
            /\ distribution.high = StoredWithLevel("high")
            /\ distribution.medium = StoredWithLevel("medium")
            /\ distribution.low = StoredWithLevel("low")
            /\ distribution.high + distribution.medium + distribution.low =
                   ret.total_inspections
            /\ db.rows = <<>> =>
                   /\ ret.total_inspections = 0
                   /\ distribution = [high |-> 0, medium |-> 0, low |-> 0]

\* One inspection at 0.7 and one at 0.4: one high, one medium, no low.
C21_Witness ==
    /\ Served("get_stats")
    /\ {db.rows[i].criticality_score : i \in 1..Len(db.rows)} =
           {FromDecimal(7, 10), FromDecimal(4, 10)}
    /\ ret.total_inspections = 2
    /\ ret.criticality_distribution = [high |-> 1, medium |-> 1, low |-> 0]

\* The second of the clock an upload_date was taken at.
SecondOf(upload_date) ==
    3600 * upload_date.values[1] + 60 * upload_date.values[2]
        + upload_date.values[3]

\* C22: get_all(db, limit) gives min(limit, N) of the N stored inspections,
\* none of them twice, newest first: no returned inspection is older than
\* the one after it nor than one left out; with N <= limit it gives them all.
C22_NewestFirstUpToLimit ==
    Served("get_all") =>
        LET N == Len(db.rows)
            returned == {ret[i] : i \in 1..Len(ret)}
        IN  /\ Len(ret) = (IF args.limit < N THEN args.limit ELSE N)
            /\ returned \subseteq Rows
            /\ \A i, j \in 1..Len(ret) : i # j => ret[i].id # ret[j].id
            /\ \A i, j \in 1..Len(ret) :
                   i < j => SecondOf(ret[i].upload_date)
                                >= SecondOf(ret[j].upload_date)
            /\ \A row \in Rows \ returned :
                   \A i \in 1..Len(ret) :
                       SecondOf(ret[i].upload_date) >= SecondOf(row.upload_date)
            /\ N <= args.limit => returned = Rows

\* Two inspections saved one second apart, and the newer one alone
\* returned for the limit 1.
C22_Witness ==
    /\ Served("get_all")
    /\ args.limit = 1
    /\ Len(db.rows) = 2
    /\ SecondOf(db.rows[1].upload_date) < SecondOf(db.rows[2].upload_date)
    /\ ret = <<db.rows[2]>>

(***************************************************************************)
(* Deletion, and the folder against the table.                             *)
(***************************************************************************)
\* The paths of the original and of the annotated image of a row.
PathsOf(row) ==
    {join(UPLOAD_FOLDER, row.filename),
     join(UPLOAD_FOLDER, annotated_path(row.filename))}

\* C24: deleting a stored id removes that inspection alone: get_by_id then
\* gives None for it, its original and annotated files are gone, and every
\* other stored inspection and each of its files is as it was; deleting an
\* id that is not stored is answered 404 and changes no row and no file.
C24_DeletesExactlyOne ==
    [][Serving("delete_inspection") =>
           IF args'.inspection_id \in RowIds
           THEN /\ get_by_id(db', args'.inspection_id) = None
                /\ PathsOf(RowOf(args'.inspection_id)) \cap DOMAIN disk' = {}
                /\ \A other \in RowIds \ {args'.inspection_id} :
                       /\ get_by_id(db', other) = RowOf(other)
                       /\ \A path \in PathsOf(RowOf(other)) \cap DOMAIN disk :
                              /\ path \in DOMAIN disk'
                              /\ disk'[path] = disk[path]
           ELSE /\ ret'.status = 404
                /\ db' = db
                /\ disk' = disk]_vars

\* C27: after any sequence of uploads and deletions, failed ones included,
\* every file of the upload folder is the original or the annotated file of
\* a stored inspection, and the original file of every stored inspection is
\* in the folder.
C27_FilesMatchRecords ==
    /\ \A path \in DOMAIN disk : \E row \in Rows : path \in PathsOf(row)
    /\ \A row \in Rows : join(UPLOAD_FOLDER, row.filename) \in DOMAIN disk

====
